---- MODULE Spec2Model ----
(***************************************************************************)
(* Model of the 360-degree tour ingestion path of mogadishu-vista:         *)
(*   - TourUpload.tsx : the upload dialog and its uploadTour loop          *)
(*   - process-360-video edge function (src/unnamed/part_000, 1-114)       *)
(*   - Map.tsx        : fetchLocations and the TourUpload mount            *)
(*   - the locations table and its row level security policies            *)
(* A row of the locations table carries the columns the code reads or      *)
(* writes.  Its id stands for the generated uuid; it is the triple         *)
(* <<job, unit, idx>> of the uploadTour run, the video and the panorama    *)
(* that produced it, which no code path reads (the code matches on         *)
(* user_id, location_type and title only).                                 *)
(***************************************************************************)
EXTENDS Integers, FiniteSets, Sequences, TLC

\* ---------------------------------------------------------------- bounds
MaxJobs == 2
MaxVideos == 2
MaxUnits == 2
MaxFiles == 2
MaxBatch == 5

\* ------------------------------------------------------ program constants
PanoramaCount == 5
SeedCount == 8

\* one browser session is modelled in full; the other user is present
\* through the rows an earlier tour of theirs left in the table
Sessions == {"u1"}
OtherUser == "u2"
NoUser == "null"
TitleInputs == {"", " ", "A"}

Jobs == 1..MaxJobs

VARIABLES
    signedIn,            \* session -> BOOLEAN : useAuth().user is non-null
    showTourUpload,      \* session -> BOOLEAN : Map state showTourUpload
    tourTitle,           \* session -> title typed in the mounted dialog
    videos,              \* session -> number of entries of the videos list
    isUploading,         \* session -> BOOLEAN (mounted dialog)
    processingProgress,  \* session -> 0..  (mounted dialog)
    job,                 \* run of uploadTour -> its closure and position
    fn,                  \* run -> the edge function invocation it awaits
    rows,                \* the locations table
    locations,           \* session -> Map state locations
    fetching,            \* session -> user id of the fetchLocations query in flight
    selection,           \* session -> the run of handleFileSelect of the dialog
    markers              \* session -> the locations that have a marker on the map

vars == <<signedIn, showTourUpload, tourTitle, videos, isUploading,
          processingProgress, job, fn, rows, locations, fetching, selection,
          markers>>

mapVars == <<locations, markers>>

dialogVars == <<tourTitle, videos, isUploading, processingProgress>>

\* ------------------------------------------------------------ pure helpers

\* String.prototype.trim on the title inputs of the model
Trim(t) == IF t = " " THEN "" ELSE t

NumStr(k) == <<"1", "2", "3", "4", "5", "6", "7", "8", "9">>[k]

\* `${tourTitle} - Processing`
ProcessingTitle(t) == t \o " - Processing"

\* a title that does not count: every panorama is number 1
PanoramaTitleFirst(t, index) == t \o " - Panorama " \o NumStr(1)

\* `${tourTitle} - Panorama ${index + 1}`
PanoramaTitle(t, index) == t \o " - Panorama " \o NumStr(index + 1)

\* useAuth().user of a session (its id, or null)
SessionUser(s) == IF signedIn[s] THEN s ELSE NoUser

\* auth.uid() of a request made by the client of session s
AuthUid(s) == IF signedIn[s] THEN s ELSE NoUser

\* the eight public markers inserted by the migration
SeedRows ==
    { [id |-> <<0, 0, k>>, user_id |-> NoUser, title |-> "seed",
       has_street_view |-> TRUE, location_type |-> "marker",
       is_public |-> TRUE] : k \in 1..SeedCount }

\* what earlier tours left in the table when their processing failed (the
\* function returned its 500 response and the placeholder stayed): a
\* placeholder of the other user with the title the session will use, and
\* one of the session's user with another title
EarlierRows ==
    { [id |-> <<0, 1, 0>>, user_id |-> OtherUser,
       title |-> ProcessingTitle("A"),
       has_street_view |-> FALSE, location_type |-> "video_processing",
       is_public |-> FALSE],
      [id |-> <<0, 2, 0>>, user_id |-> "u1",
       title |-> ProcessingTitle("B"),
       has_street_view |-> FALSE, location_type |-> "video_processing",
       is_public |-> FALSE] }

\* SELECT policies of public.locations (permissive, so OR-ed)
SelectPolicy(r, uid) ==
    \/ r.is_public = TRUE
    \/ (uid # NoUser /\ r.user_id # NoUser /\ uid = r.user_id)

\* INSERT policy WITH CHECK (auth.uid() = user_id)
InsertPolicy(r, uid) ==
    uid # NoUser /\ r.user_id # NoUser /\ uid = r.user_id

\* a filter that forgets the public rows
OrFilterOwnOnly(r, userId) == r.user_id = userId

\* .or(`is_public.eq.true,user_id.eq.${user.id}`)
OrFilter(r, userId) == r.is_public = TRUE \/ r.user_id = userId

\* the rows a select of fetchLocations returns from table T
SelectFrom(T, uid, userId) ==
    { r \in T : SelectPolicy(r, uid) /\ OrFilter(r, userId) }

SelectLocations(uid, userId) == SelectFrom(rows, uid, userId)

\* a placeholder registered one video ahead of the loop
PlaceholderRowAhead(j, unit) ==
    [id |-> <<j, unit + 1, 0>>, user_id |-> job[j].user,
     title |-> ProcessingTitle(job[j].title),
     has_street_view |-> FALSE, location_type |-> "video_processing",
     is_public |-> FALSE]

\* the row uploadTour inserts for video `unit` of run j
PlaceholderRow(j, unit) ==
    [id |-> <<j, unit, 0>>, user_id |-> job[j].user,
     title |-> ProcessingTitle(job[j].title),
     has_street_view |-> FALSE, location_type |-> "video_processing",
     is_public |-> FALSE]

\* panoramas published as public rows
MockPanoramasPublic(j) ==
    { [id |-> <<j, fn[j].unit, index + 1>>, user_id |-> fn[j].userId,
       title |-> PanoramaTitle(fn[j].tourTitle, index),
       has_street_view |-> TRUE, location_type |-> "video_panorama",
       is_public |-> TRUE] : index \in 0..(PanoramaCount - 1) }

\* mockPanoramas of one invocation of the edge function
MockPanoramas(j) ==
    { [id |-> <<j, fn[j].unit, index + 1>>, user_id |-> fn[j].userId,
       title |-> PanoramaTitle(fn[j].tourTitle, index),
       has_street_view |-> TRUE, location_type |-> "video_panorama",
       is_public |-> FALSE] : index \in 0..(PanoramaCount - 1) }

\* a delete that matches on the owner only
DeleteMatchOwner(r, userId, title) == r.user_id = userId

\* a delete that matches on type and title, whoever owns the row
DeleteMatchAnyOwner(r, userId, title) ==
    /\ r.location_type = "video_processing"
    /\ r.title = ProcessingTitle(title)

\* the rows matched by the delete of the edge function
DeleteMatch(r, userId, title) ==
    /\ r.user_id = userId
    /\ r.location_type = "video_processing"
    /\ r.title = ProcessingTitle(title)

IdleJob == [pc |-> "unused", sess |-> NoUser, user |-> NoUser, title |-> "",
            n |-> 0, i |-> 0, mounted |-> FALSE, cancelled |-> FALSE,
            ok |-> 0]

\* `had` records whether the placeholder of the unit was in the table when
\* the function was invoked (read by no action)
IdleFn == [pc |-> "idle", userId |-> NoUser, tourTitle |-> "", unit |-> 0,
           had |-> FALSE]

\* File.type as <<type, subtype>>, standing for the string type/subtype
FileTypes == {<<"video", "mp4">>, <<"image", "jpeg">>, <<"text", "plain">>}

\* a File of the input element: its declared type, whether it holds any
\* bytes, and whether a <video> element fires loadedmetadata for it (an
\* empty file never does)
Files ==
    { f \in [type : FileTypes, size : {0, 1}, loads : BOOLEAN] :
         f.loads => f.size > 0 }

\* event.target.files of one change event
Batches == UNION { [1..n -> Files] : n \in 1..MaxFiles }

\* a type/subtype that is image or video passes
StartsWithVideoOrImage(type) == type[1] \in {"video", "image"}

\* file.type.startsWith('video/')
StartsWithVideo(type) == type[1] = "video"

\* no handleFileSelect has run in the dialog; `added` and `reported` record
\* the positions of the files appended to videos and of those named in a
\* toast.error (read by no action)
IdleSelection == [files |-> <<>>, k |-> 0, pc |-> "idle", added |-> {},
                  reported |-> {}]

Running(j) == job[j].pc \in {"upload", "insert", "invoke", "awaitFn"}
Terminal(j) == job[j].pc \in {"done", "failed"}

\* ------------------------------------------------------------------- Init

\* Map is mounted in every session, with or without an authenticated user;
\* its effect on [user] has called fetchLocations and the select has
\* answered
Init ==
    /\ signedIn \in [Sessions -> BOOLEAN]
    /\ showTourUpload = [s \in Sessions |-> FALSE]
    /\ tourTitle = [s \in Sessions |-> ""]
    /\ videos = [s \in Sessions |-> 0]
    /\ isUploading = [s \in Sessions |-> FALSE]
    /\ processingProgress = [s \in Sessions |-> 0]
    /\ job = [j \in Jobs |-> IdleJob]
    /\ fn = [j \in Jobs |-> IdleFn]
    /\ rows = SeedRows \cup EarlierRows
    /\ locations = [s \in Sessions |->
                       IF signedIn[s]
                       THEN SelectFrom(SeedRows \cup EarlierRows, s, s)
                       ELSE {}]
    /\ fetching = [s \in Sessions |-> "idle"]
    /\ selection = [s \in Sessions |-> IdleSelection]
    /\ markers = locations

\* ------------------------------------------------------------ Map.tsx

\* fetchLocations up to its await: `if (!user) return`, else the select
\* is issued with the user id of the closure
FetchLocationsCall(s, user) ==
    fetching' = IF user = NoUser THEN fetching
                ELSE [fetching EXCEPT ![s] = user]

\* the effect on [locations], run after setLocations: for an empty list it
\* returns at once; else it removes the markers held in streetViewMarkers
\* and adds one marker per location (a marker is named by its location)
MarkerEffect(shown, list) == IF list = {} THEN shown ELSE list

\* signOut, then useEffect(() => { fetchLocations() }, [user]) with
\* user = null
SignOut(s) ==
    /\ signedIn[s]
    /\ signedIn' = [signedIn EXCEPT ![s] = FALSE]
    /\ FetchLocationsCall(s, NoUser)
    /\ UNCHANGED <<showTourUpload, dialogVars, job, fn, rows, mapVars,
                   selection>>

\* the select of fetchLocations answers: setLocations(data || []), or an
\* error (toast only)
FetchLocationsDone(s) ==
    /\ fetching[s] # "idle"
    /\ fetching' = [fetching EXCEPT ![s] = "idle"]
    /\ \/ /\ locations' = [locations EXCEPT
                             ![s] = SelectLocations(AuthUid(s), fetching[s])]
          /\ markers' = [markers EXCEPT
                           ![s] = MarkerEffect(@, locations'[s])]
       \/ UNCHANGED mapVars
    /\ UNCHANGED <<signedIn, showTourUpload, dialogVars, job, fn, rows,
                   selection>>

\* the videos handed to uploadTour so far, over all runs
RECURSIVE UnitsUsed(_)
UnitsUsed(k) == IF k = 0 THEN 0 ELSE job[k].n + UnitsUsed(k - 1)

\* the + button: setShowTourUpload(true) mounts a fresh TourUpload
OpenTourUpload(s) ==
    /\ ~showTourUpload[s]
    /\ UnitsUsed(MaxJobs) < MaxUnits
    /\ \E j \in Jobs : job[j].pc = "unused"
    /\ showTourUpload' = [showTourUpload EXCEPT ![s] = TRUE]
    /\ UNCHANGED <<signedIn, dialogVars, job, fn, rows, mapVars, fetching,
                   selection>>

\* the jobs after the dialog of session s was unmounted; `byUser` tells
\* that the Cancel or X control did it
Unmounted(s, byUser) ==
    [k \in Jobs |->
        IF job[k].sess = s /\ job[k].mounted
        THEN [job[k] EXCEPT !.mounted = FALSE,
                            !.cancelled = byUser /\ Running(k)]
        ELSE job[k]]

\* onClose: setShowTourUpload(false); the dialog's state is discarded, a
\* running uploadTour keeps running
Close(s) ==
    /\ showTourUpload[s]
    /\ showTourUpload' = [showTourUpload EXCEPT ![s] = FALSE]
    /\ tourTitle' = [tourTitle EXCEPT ![s] = ""]
    /\ videos' = [videos EXCEPT ![s] = 0]
    /\ isUploading' = [isUploading EXCEPT ![s] = FALSE]
    /\ processingProgress' = [processingProgress EXCEPT ![s] = 0]
    /\ job' = Unmounted(s, TRUE)
    /\ UNCHANGED <<signedIn, fn, rows, mapVars, fetching, selection>>

\* ------------------------------------------------------- TourUpload.tsx

SetTourTitle(s, t) ==
    /\ showTourUpload[s]
    /\ ~isUploading[s]
    /\ tourTitle[s] # t
    /\ tourTitle' = [tourTitle EXCEPT ![s] = t]
    /\ UNCHANGED <<signedIn, showTourUpload, videos, isUploading,
                   processingProgress, job, fn, rows, mapVars, fetching,
                   selection>>

\* handleFileSelect for one video file
HandleFileSelect(s) ==
    /\ showTourUpload[s]
    /\ ~isUploading[s]
    /\ videos[s] < MaxVideos
    /\ videos' = [videos EXCEPT ![s] = @ + 1]
    /\ UNCHANGED <<signedIn, showTourUpload, tourTitle, isUploading,
                   processingProgress, job, fn, rows, mapVars, fetching,
                   selection>>

RemoveVideo(s) ==
    /\ showTourUpload[s]
    /\ ~isUploading[s]
    /\ videos[s] > 0
    /\ videos' = [videos EXCEPT ![s] = @ - 1]
    /\ UNCHANGED <<signedIn, showTourUpload, tourTitle, isUploading,
                   processingProgress, job, fn, rows, mapVars, fetching,
                   selection>>

\* handleFileSelect is called with the files of a change event: the loop
\* is at its first file
SelectFiles(s, files) ==
    /\ showTourUpload[s]
    /\ selection[s].pc = "idle"
    /\ selection' = [selection EXCEPT ![s] =
                        [IdleSelection EXCEPT !.files = files, !.k = 1,
                                              !.pc = "check"]]
    /\ UNCHANGED <<signedIn, showTourUpload, dialogVars, job, fn, rows,
                   mapVars, fetching>>

\* the loop of handleFileSelect moves to the next file, or is over
NextFile(sel) ==
    [sel EXCEPT !.k = @ + 1,
                !.pc = IF sel.k + 1 > Len(sel.files) THEN "finished"
                       ELSE "check"]

\* the head of the loop body: a file that is no video is named in a toast
\* and skipped with `continue`; for a video getVideoDuration is awaited
CheckFile(s) ==
    LET sel == selection[s] IN
    /\ sel.pc = "check"
    /\ selection' = [selection EXCEPT ![s] =
          IF ~StartsWithVideo(sel.files[sel.k].type)
          THEN NextFile([sel EXCEPT !.reported = @ \cup {sel.k}])
          ELSE [sel EXCEPT !.pc = "duration"]]
    /\ UNCHANGED <<signedIn, showTourUpload, dialogVars, job, fn, rows,
                   mapVars, fetching>>

\* video.onloadedmetadata resolves getVideoDuration: setVideos(prev =>
\* [...prev, videoFile]); the promise has no other way to settle
DurationLoaded(s) ==
    LET sel == selection[s] IN
    /\ sel.pc = "duration"
    /\ sel.files[sel.k].loads
    /\ videos' = [videos EXCEPT ![s] = @ + 1]
    /\ selection' = [selection EXCEPT ![s] =
                        NextFile([sel EXCEPT !.added = @ \cup {sel.k}])]
    /\ UNCHANGED <<signedIn, showTourUpload, tourTitle, isUploading,
                   processingProgress, job, fn, rows, mapVars, fetching>>

\* disabled={isUploading || !tourTitle.trim() || videos.length === 0}
UploadButtonEnabled(s) ==
    /\ showTourUpload[s]
    /\ ~(isUploading[s] \/ Trim(tourTitle[s]) = "" \/ videos[s] = 0)

\* a guard that does not look at the user
UploadTourRejectsNoUserCheck(s) ==
    Trim(tourTitle[s]) = "" \/ videos[s] = 0

\* if (!user || !tourTitle.trim() || videos.length === 0) return
UploadTourRejects(s) ==
    SessionUser(s) = NoUser \/ Trim(tourTitle[s]) = "" \/ videos[s] = 0

\* a record that is taken again once its run has ended
FreeJobOrEnded(j) == job[j].pc \in {"unused", "done"}

FreeJob(j) ==
    /\ job[j].pc = "unused"
    /\ \A k \in Jobs : k < j => job[k].pc # "unused"

\* a click on Upload & Process: uploadTour up to its first await (a
\* rejected call shows a toast and changes nothing)
UploadTourWithin(s, budget) ==
    /\ UploadButtonEnabled(s)
    /\ ~UploadTourRejects(s)
    /\ UnitsUsed(MaxJobs) + videos[s] <= budget
    /\ \E j \in Jobs :
         /\ FreeJob(j)
         /\ job' = [job EXCEPT ![j] =
                      [pc |-> "upload", sess |-> s,
                       user |-> SessionUser(s), title |-> tourTitle[s],
                       n |-> videos[s], i |-> 0, mounted |-> TRUE,
                       cancelled |-> FALSE, ok |-> 0]]
    /\ isUploading' = [isUploading EXCEPT ![s] = TRUE]
    /\ processingProgress' = [processingProgress EXCEPT ![s] = 0]
    /\ UNCHANGED <<signedIn, showTourUpload, tourTitle, videos, fn, rows,
                   mapVars, fetching, selection>>

UploadTour(s) == UploadTourWithin(s, MaxUnits)

\* the end of the loop body for video i (`continue`, or the last statement):
\* either the next iteration starts, or the loop is over and uploadTour
\* runs to its end: setProcessingProgress(100), toast.success,
\* onTourCreated(), onClose(), finally
EndIteration(j) ==
    LET s == job[j].sess
        counted == [job[j] EXCEPT !.i = @ + 1]
    IN  IF job[j].i + 1 < job[j].n
        THEN /\ job' = [job EXCEPT ![j] = [counted EXCEPT !.pc = "upload"]]
             /\ UNCHANGED <<showTourUpload, dialogVars, fetching>>
        ELSE /\ job' = [Unmounted(s, FALSE) EXCEPT ![j] =
                          [counted EXCEPT !.pc = "done", !.mounted = FALSE]]
             /\ FetchLocationsCall(s, job[j].user)
             /\ showTourUpload' = [showTourUpload EXCEPT ![s] = FALSE]
             /\ tourTitle' = [tourTitle EXCEPT ![s] = ""]
             /\ videos' = [videos EXCEPT ![s] = 0]
             /\ isUploading' = [isUploading EXCEPT ![s] = FALSE]
             /\ processingProgress' = [processingProgress EXCEPT ![s] = 0]

\* supabase.storage.from('tour-images').upload(...) answered
Upload(j) ==
    /\ job[j].pc = "upload"
    /\ LET s == job[j].sess IN
       \/ \* uploaded: setProcessingProgress(25 + (i * 25))
          /\ job' = [job EXCEPT ![j].pc = "insert"]
          /\ processingProgress' =
                IF job[j].mounted
                THEN [processingProgress EXCEPT ![s] = 25 + (job[j].i * 25)]
                ELSE processingProgress
          /\ UNCHANGED <<showTourUpload, tourTitle, videos, isUploading,
                         fetching>>
       \/ \* uploadError: toast and continue
          EndIteration(j)
       \/ \* the call throws: catch and finally
          /\ job' = [job EXCEPT ![j].pc = "failed"]
          /\ isUploading' = IF job[j].mounted
                            THEN [isUploading EXCEPT ![s] = FALSE]
                            ELSE isUploading
          /\ processingProgress' =
                IF job[j].mounted
                THEN [processingProgress EXCEPT ![s] = 0]
                ELSE processingProgress
          /\ UNCHANGED <<showTourUpload, tourTitle, videos, fetching>>
    /\ UNCHANGED <<signedIn, fn, rows, mapVars, selection>>

\* supabase.from('locations').insert({... 'video_processing' ...}) answered;
\* a dbError is reported by a toast only and the loop body goes on
InsertPlaceholder(j) ==
    /\ job[j].pc = "insert"
    /\ job' = [job EXCEPT ![j].pc = "invoke"]
    /\ \/ /\ InsertPolicy(PlaceholderRow(j, job[j].i), AuthUid(job[j].sess))
          /\ rows' = rows \cup {PlaceholderRow(j, job[j].i)}
       \/ UNCHANGED rows
    /\ UNCHANGED <<signedIn, showTourUpload, dialogVars, fn, mapVars,
                   fetching, selection>>

\* supabase.functions.invoke('process-360-video', {body}) sent
Invoke(j) ==
    /\ job[j].pc = "invoke"
    /\ job' = [job EXCEPT ![j].pc = "awaitFn"]
    /\ fn' = [fn EXCEPT ![j] = [pc |-> "steps", userId |-> job[j].user,
                                tourTitle |-> job[j].title,
                                unit |-> job[j].i,
                                had |-> PlaceholderRow(j, job[j].i) \in rows]]
    /\ UNCHANGED <<signedIn, showTourUpload, dialogVars, rows, mapVars,
                   fetching, selection>>

\* the response of the edge function reaches uploadTour (processError is
\* reported by a toast only)
InvokeReturn(j) ==
    /\ job[j].pc = "awaitFn"
    /\ fn[j].pc \in {"ok", "err"}
    /\ fn' = [fn EXCEPT ![j] = IdleFn]
    /\ EndIteration(j)
    /\ UNCHANGED <<signedIn, rows, mapVars, selection>>

\* ----------------------------------------- process-360-video (part_000)

\* a loop over processingSteps that never comes to its end
FnStepsForever(j) ==
    /\ fn[j].pc = "steps"
    /\ UNCHANGED vars

\* the loop over processingSteps (timers only)
FnSteps(j) ==
    /\ fn[j].pc = "steps"
    /\ fn' = [fn EXCEPT ![j].pc = "insert"]
    /\ UNCHANGED <<signedIn, showTourUpload, dialogVars, job, rows,
                   mapVars, fetching, selection>>

\* insert(mockPanoramas): one statement, all rows or insertError -> throw
\* -> catch -> the 500 response
FnInsert(j) ==
    /\ fn[j].pc = "insert"
    /\ \/ /\ rows' = rows \cup MockPanoramas(j)
          /\ fn' = [fn EXCEPT ![j].pc = "delete"]
       \/ /\ fn' = [fn EXCEPT ![j].pc = "err"]
          /\ UNCHANGED rows
    /\ UNCHANGED <<signedIn, showTourUpload, dialogVars, job, mapVars,
                   fetching, selection>>

\* delete().eq(user_id).eq(location_type).eq(title); a deleteError is
\* logged only; then the success response (job[j].ok counts the success
\* responses of the run's invocations and is read by no action)
FnDelete(j) ==
    /\ fn[j].pc = "delete"
    /\ fn' = [fn EXCEPT ![j].pc = "ok"]
    /\ job' = [job EXCEPT ![j].ok = @ + 1]
    /\ \/ rows' = { r \in rows :
                      ~DeleteMatch(r, fn[j].userId, fn[j].tourTitle) }
       \/ UNCHANGED rows
    /\ UNCHANGED <<signedIn, showTourUpload, dialogVars, mapVars,
                   fetching, selection>>

\* ------------------------------------------------------------------- Next
Next ==
    \/ \E s \in Sessions : SignOut(s)
    \/ \E s \in Sessions : FetchLocationsDone(s)
    \/ \E s \in Sessions : OpenTourUpload(s)
    \/ \E s \in Sessions : Close(s)
    \/ \E s \in Sessions, t \in TitleInputs : SetTourTitle(s, t)
    \/ \E s \in Sessions : HandleFileSelect(s)
    \/ \E s \in Sessions : RemoveVideo(s)
    \/ \E s \in Sessions : UploadTour(s)
    \/ \E j \in Jobs : Upload(j)
    \/ \E j \in Jobs : InsertPlaceholder(j)
    \/ \E j \in Jobs : Invoke(j)
    \/ \E j \in Jobs : InvokeReturn(j)
    \/ \E j \in Jobs : FnSteps(j)
    \/ \E j \in Jobs : FnInsert(j)
    \/ \E j \in Jobs : FnDelete(j)

Spec == Init /\ [][Next]_vars

\* every call a run of uploadTour awaits is answered, and the timers and
\* the database calls of the function come back: a step of a run or of an
\* invocation that can be taken is taken
Fairness ==
    \A j \in Jobs :
        /\ WF_vars(Upload(j))
        /\ WF_vars(InsertPlaceholder(j))
        /\ WF_vars(Invoke(j))
        /\ WF_vars(InvokeReturn(j))
        /\ WF_vars(FnSteps(j))
        /\ WF_vars(FnInsert(j))
        /\ WF_vars(FnDelete(j))

\* the runs of uploadTour and the dialog, without the answers to the map's
\* select: these change only `locations`, which no step of a run or of the
\* function reads
LiveNext ==
    \/ \E s \in Sessions : SignOut(s)
    \/ \E s \in Sessions : OpenTourUpload(s)
    \/ \E s \in Sessions : Close(s)
    \/ \E s \in Sessions, t \in TitleInputs : SetTourTitle(s, t)
    \/ \E s \in Sessions : HandleFileSelect(s)
    \/ \E s \in Sessions : RemoveVideo(s)
    \/ \E s \in Sessions : UploadTour(s)
    \/ \E j \in Jobs : Upload(j)
    \/ \E j \in Jobs : InsertPlaceholder(j)
    \/ \E j \in Jobs : Invoke(j)
    \/ \E j \in Jobs : InvokeReturn(j)
    \/ \E j \in Jobs : FnSteps(j)
    \/ \E j \in Jobs : FnInsert(j)
    \/ \E j \in Jobs : FnDelete(j)

LiveSpec == Init /\ [][LiveNext]_vars /\ Fairness

\* ------------------------------------------------- the map on its own

\* what the table may hold when a select of the map runs: any part of a
\* sample of the seeded public markers and of the placeholders; rows are
\* added and removed by other sessions, by the service role of the function
\* and by whoever operates the database
TableSample == { r \in SeedRows : r.id[3] <= 2 } \cup EarlierRows
Tables == SUBSET TableSample

\* a signed-in session on the map, the dialog closed
MarkerInit ==
    /\ signedIn = [s \in Sessions |-> TRUE]
    /\ showTourUpload = [s \in Sessions |-> FALSE]
    /\ tourTitle = [s \in Sessions |-> ""]
    /\ videos = [s \in Sessions |-> 0]
    /\ isUploading = [s \in Sessions |-> FALSE]
    /\ processingProgress = [s \in Sessions |-> 0]
    /\ job = [j \in Jobs |-> IdleJob]
    /\ fn = [j \in Jobs |-> IdleFn]
    /\ rows = TableSample
    /\ locations = [s \in Sessions |-> SelectFrom(TableSample, s, s)]
    /\ fetching = [s \in Sessions |-> "idle"]
    /\ selection = [s \in Sessions |-> IdleSelection]
    /\ markers = locations

TableBecomes(T) ==
    /\ rows # T
    /\ rows' = T
    /\ UNCHANGED <<signedIn, showTourUpload, dialogVars, job, fn, mapVars,
                   fetching, selection>>

\* fetchLocations is called again (the effect on [user], onTourCreated)
Refetch(s) ==
    /\ fetching[s] = "idle"
    /\ SessionUser(s) # NoUser
    /\ FetchLocationsCall(s, SessionUser(s))
    /\ UNCHANGED <<signedIn, showTourUpload, dialogVars, job, fn, rows,
                   mapVars, selection>>

MarkerNext ==
    \/ \E T \in Tables : TableBecomes(T)
    \/ \E s \in Sessions : Refetch(s)
    \/ \E s \in Sessions : FetchLocationsDone(s)

MarkerSpec == MarkerInit /\ [][MarkerNext]_vars

\* ------------------------------------------- one run of a larger batch

\* the dialog of a signed-in session with a title and one to MaxBatch
\* videos, before the click on Upload & Process
ProgressInit ==
    /\ signedIn = [s \in Sessions |-> TRUE]
    /\ showTourUpload = [s \in Sessions |-> TRUE]
    /\ tourTitle = [s \in Sessions |-> "A"]
    /\ videos \in [Sessions -> 1..MaxBatch]
    /\ isUploading = [s \in Sessions |-> FALSE]
    /\ processingProgress = [s \in Sessions |-> 0]
    /\ job = [j \in Jobs |-> IdleJob]
    /\ fn = [j \in Jobs |-> IdleFn]
    /\ rows = SeedRows \cup EarlierRows
    /\ locations = [s \in Sessions |->
                       SelectFrom(SeedRows \cup EarlierRows, s, s)]
    /\ fetching = [s \in Sessions |-> "idle"]
    /\ selection = [s \in Sessions |-> IdleSelection]
    /\ markers = locations

ProgressNext ==
    \/ \E s \in Sessions : UploadTourWithin(s, MaxBatch)
    \/ \E j \in Jobs : Upload(j)
    \/ \E j \in Jobs : InsertPlaceholder(j)
    \/ \E j \in Jobs : Invoke(j)
    \/ \E j \in Jobs : InvokeReturn(j)
    \/ \E j \in Jobs : FnSteps(j)
    \/ \E j \in Jobs : FnInsert(j)
    \/ \E j \in Jobs : FnDelete(j)

ProgressSpec == ProgressInit /\ [][ProgressNext]_vars

\* ------------------------------------------- the file selection on its own

\* a signed-in session with the dialog open and nothing typed or selected
SelectInit ==
    /\ signedIn = [s \in Sessions |-> TRUE]
    /\ showTourUpload = [s \in Sessions |-> TRUE]
    /\ tourTitle = [s \in Sessions |-> ""]
    /\ videos = [s \in Sessions |-> 0]
    /\ isUploading = [s \in Sessions |-> FALSE]
    /\ processingProgress = [s \in Sessions |-> 0]
    /\ job = [j \in Jobs |-> IdleJob]
    /\ fn = [j \in Jobs |-> IdleFn]
    /\ rows = SeedRows \cup EarlierRows
    /\ locations = [s \in Sessions |->
                       SelectFrom(SeedRows \cup EarlierRows, s, s)]
    /\ fetching = [s \in Sessions |-> "idle"]
    /\ selection = [s \in Sessions |-> IdleSelection]
    /\ markers = locations

SelectNext ==
    \/ \E s \in Sessions, files \in Batches : SelectFiles(s, files)
    \/ \E s \in Sessions : CheckFile(s)
    \/ \E s \in Sessions : DurationLoaded(s)

SelectSpec == SelectInit /\ [][SelectNext]_vars

\* the loop of handleFileSelect goes on whenever it can: the type check is
\* synchronous, and loadedmetadata is delivered for a video that loads
SelectFairness ==
    \A s \in Sessions : WF_vars(CheckFile(s)) /\ WF_vars(DurationLoaded(s))

SelectLiveSpec == SelectSpec /\ SelectFairness

\* ------------------------------------------------------------------ views

JobOf(r) == r.id[1]
UnitOf(r) == r.id[2]
IsPlaceholder(r) == r.location_type = "video_processing"
IsFinal(r) == r.location_type = "video_panorama"

\* the rows of the table, or of a read result, that run j produced
RowsOf(j) == { r \in rows : JobOf(r) = j }
Placeholders(j) == { r \in RowsOf(j) : IsPlaceholder(r) }
Finals(j) == { r \in RowsOf(j) : IsFinal(r) }
FinalsOfUnit(j, u) == { r \in Finals(j) : UnitOf(r) = u }
Mixed(S, j) ==
    /\ \E r \in S : JobOf(r) = j /\ IsPlaceholder(r)
    /\ \E r \in S : JobOf(r) = j /\ IsFinal(r)

\* the edge function has answered the invocation run j awaits
FnReturned(j) == fn[j].pc \in {"ok", "err"}

\* the job states of the specification, read off a run of uploadTour: a
\* run that reached its end is Completed when a unit succeeded and Failed
\* when none did; a run that ended in the catch block is Failed; a job is
\* in flight from the placeholder insert of a unit until the function has
\* answered for it
JobCompleted(j) == job[j].pc = "done" /\ job[j].ok > 0
JobFailed(j) == job[j].pc = "failed" \/ (job[j].pc = "done" /\ job[j].ok = 0)
InFlight(j) == job[j].pc \in {"invoke", "awaitFn"} /\ ~FnReturned(j)

\* ----------------------------------------------------------------- claims

\* C1: the commit of the processing function is atomic: when it has
\* returned, either the final rows of the unit are inserted and no
\* placeholder of the tour remains, or no final row was inserted and the
\* placeholder the unit had is still there.
C1_CommitAtomic ==
    \A j \in Jobs :
        FnReturned(j) =>
            \/ /\ FinalsOfUnit(j, fn[j].unit) # {}
               /\ Placeholders(j) = {}
            \/ /\ FinalsOfUnit(j, fn[j].unit) = {}
               /\ fn[j].had => PlaceholderRow(j, fn[j].unit) \in rows

\* C2: a reader never holds, for one tour, both placeholder and final rows,
\* and the owner's read never yields zero rows of a tour one of whose
\* units has succeeded.
C2_ReaderSeesNoPartialTour ==
    \A j \in Jobs :
        /\ \A s \in Sessions : ~Mixed(locations[s], j)
        /\ job[j].ok > 0 =>
              \E r \in SelectLocations(job[j].user, job[j].user) :
                  JobOf(r) = j

\* C3 as stated: a completed job with K succeeded units has exactly K final
\* rows, numbered 0..K-1, and no placeholder.
C3_OneFinalPerSucceededUnit ==
    \A j \in Jobs :
        JobCompleted(j) =>
            /\ Cardinality(Finals(j)) = job[j].ok
            /\ { r.id[3] - 1 : r \in Finals(j) } = 0..(job[j].ok - 1)
            /\ Placeholders(j) = {}

\* C3 as amended: a run that reached its end with K succeeded units has exactly
\* PanoramaCount * K final rows: for each succeeded unit the panoramas
\* numbered 1..PanoramaCount, each once; a failed unit contributes none.
C3_FiveFinalsPerSucceededUnit ==
    \A j \in Jobs :
        job[j].pc = "done" =>
            /\ Cardinality(Finals(j)) = PanoramaCount * job[j].ok
            /\ Cardinality({ UnitOf(r) : r \in Finals(j) }) = job[j].ok
            /\ \A u \in 0..(job[j].n - 1) :
                  \/ FinalsOfUnit(j, u) = {}
                  \/ { r.title : r \in FinalsOfUnit(j, u) } =
                        { PanoramaTitle(job[j].title, index) :
                             index \in 0..(PanoramaCount - 1) }

C3_Witness ==
    \E j \in Jobs :
        /\ job[j].pc = "done"
        /\ job[j].n = 2
        /\ job[j].ok = 1
        /\ Cardinality(Finals(j)) = PanoramaCount

\* C4: the failure path of the processing function never returns while a
\* placeholder of the tour exists, and a job that ended with no succeeded
\* unit leaves no row of the tour.
C4_FailureLeavesNoRows ==
    \A j \in Jobs :
        /\ fn[j].pc = "err" => Placeholders(j) = {}
        /\ JobFailed(j) => RowsOf(j) = {}

\* C5: placeholder rows of a tour exist if and only if its job is in
\* flight: one exists from the moment the job is in flight, none once the
\* processing function has returned.
C5_PlaceholderIffInFlight ==
    \A j \in Jobs : (Placeholders(j) # {}) <=> InFlight(j)

\* C6: a job cancelled while it was running ends failed, with no row of
\* the tour, placeholder or final.
C6_CancelLeavesNothing ==
    \A j \in Jobs :
        (job[j].cancelled /\ Terminal(j)) =>
            /\ job[j].pc = "failed"
            /\ RowsOf(j) = {}

\* C7: no step of one job changes the rows of another job: the rows of a
\* tour change only in steps of its own job.
C7_Isolation ==
    [][\A k \in Jobs :
          RowsOf(k)' # RowsOf(k) => (job'[k] # job[k] \/ fn'[k] # fn[k])]_vars

\* C8: a tour (owner and title) has at most one running job at a time.
C8_OneActiveJobPerTour ==
    \A j, k \in Jobs :
        (j # k /\ Running(j) /\ Running(k)) =>
            ~(job[j].user = job[k].user /\ job[j].title = job[k].title)

C10_RowsCarryTourOwner ==
    \A r \in rows :
        JobOf(r) \in Jobs =>
            /\ r.user_id = job[JobOf(r)].user
            /\ r.user_id = job[JobOf(r)].sess
            /\ r.is_public = FALSE

C10_Witness ==
    \E j \in Jobs : Placeholders(j) # {} /\ Finals(j) # {}

\* C11 as stated: when handleFileSelect has gone through a selection, a
\* file was added exactly when its declared kind is image or video and it
\* is not empty, and every other file was reported.
C11_AcceptsImageOrVideo ==
    \A s \in Sessions :
        LET sel == selection[s] IN
        \A k \in 1..(sel.k - 1) :
              /\ k \in sel.added <=>
                    /\ sel.files[k].type[1] \in {"image", "video"}
                    /\ sel.files[k].size > 0
              /\ k \notin sel.added => k \in sel.reported

\* C11 as amended: a file the loop has passed was added exactly when its
\* declared type starts with video/, and was reported exactly when it does
\* not; a rejection never stops the loop: the loop waits only at a video,
\* for its metadata.
C11_AcceptsVideoTypeOnly ==
    \A s \in Sessions :
        LET sel == selection[s] IN
        /\ sel.pc = "duration" => sel.files[sel.k].type[1] = "video"
        /\ sel.pc = "finished" <=> (sel.files # <<>> /\ sel.k > Len(sel.files))
        /\ \A k \in 1..(sel.k - 1) :
              /\ k \in sel.added <=> sel.files[k].type[1] = "video"
              /\ k \in sel.reported <=> sel.files[k].type[1] # "video"
        /\ videos[s] = Cardinality(sel.added)
        /\ (sel.added \cup sel.reported) \subseteq 1..(sel.k - 1)

C11_Witness ==
    \E s \in Sessions :
        LET sel == selection[s] IN
        /\ sel.pc = "finished"
        /\ Len(sel.files) = 2
        /\ sel.files[1].type[1] = "image"
        /\ sel.reported = {1}
        /\ sel.added = {2}
        /\ videos[s] = 1

\* C12: every unit of a run whose processing has been dispatched has
\* exactly one placeholder row while the function works on it, and every
\* placeholder row of a run belongs to one of its units.
C12_PlaceholderPerUnit ==
    \A j \in Jobs :
        /\ fn[j].pc = "steps" =>
              Cardinality({ r \in Placeholders(j) :
                               UnitOf(r) = fn[j].unit }) = 1
        /\ \A r \in Placeholders(j) : UnitOf(r) \in 0..(job[j].n - 1)

\* C13: placeholder creation is idempotent per tour (owner and title) and
\* unit: the table never holds two placeholder rows for the same owner,
\* title and unit.
C13_PlaceholderIdempotent ==
    \A r1, r2 \in rows :
        ( /\ IsPlaceholder(r1) /\ IsPlaceholder(r2)
          /\ JobOf(r1) \in Jobs /\ JobOf(r2) \in Jobs
          /\ r1.user_id = r2.user_id
          /\ r1.title = r2.title
          /\ UnitOf(r1) = UnitOf(r2) ) => r1 = r2

\* C14: a run that has ended left no unit unattempted because another unit
\* failed (the loop went through every unit, or failed at its last one),
\* and a run with a succeeded unit did not end failed.
C14_UnitFailureIsolated ==
    \A j \in Jobs :
        /\ job[j].pc = "done" => job[j].i = job[j].n
        /\ job[j].pc = "failed" =>
              /\ job[j].i = job[j].n - 1
              /\ job[j].ok = 0

\* C15: processing a unit of a tour (owner and title) again adds no second
\* set of final rows: the table never holds two final rows with the same
\* owner, title and unit.
C15_RetryAddsNoSecondSet ==
    \A r1, r2 \in rows :
        ( /\ IsFinal(r1) /\ IsFinal(r2)
          /\ r1.user_id = r2.user_id
          /\ r1.title = r2.title
          /\ UnitOf(r1) = UnitOf(r2) ) => r1 = r2

\* the sequence position a final row shows: the number in its title, read
\* back as the 0-based position
SequencePosition(r) ==
    CHOOSE p \in 0..8 : r.title = PanoramaTitle(job[JobOf(r)].title, p)

\* C16 as stated (its numbering part; the code keeps no extraction
\* timestamp): the final rows of a tour are numbered 0..n-1 contiguously,
\* each position once.
C16_TourNumberedContiguously ==
    \A j \in Jobs :
        /\ \A r1, r2 \in Finals(j) :
              SequencePosition(r1) = SequencePosition(r2) => r1 = r2
        /\ { SequencePosition(r) : r \in Finals(j) } =
              0..(Cardinality(Finals(j)) - 1)

\* C16 as amended: the final rows of one processed video are numbered
\* contiguously in the order they are generated, positions
\* 0..PanoramaCount-1, each once; the numbering restarts with every video.
C16_UnitNumberedInGenerationOrder ==
    \A j \in Jobs : \A u \in 0..(MaxVideos - 1) :
        LET F == FinalsOfUnit(j, u) IN
        F # {} =>
            /\ \A r \in F : SequencePosition(r) = r.id[3] - 1
            /\ { SequencePosition(r) : r \in F } = 0..(PanoramaCount - 1)
            /\ Cardinality(F) = PanoramaCount

C16_Witness ==
    \E j \in Jobs :
        /\ FinalsOfUnit(j, 0) # {}
        /\ FinalsOfUnit(j, 1) # {}
        /\ \E r1 \in FinalsOfUnit(j, 0), r2 \in FinalsOfUnit(j, 1) :
              SequencePosition(r1) = SequencePosition(r2)

\* what uploadTour tells the user when it ends: toast.success on the way
\* to its end, 'Failed to upload tour' in the catch block
ReportedSuccess(j) == job[j].pc = "done"
ReportedFailure(j) == job[j].pc = "failed"

\* C17: a run in which no unit succeeded is reported as failed, never as a
\* success.
C17_OutcomeFaithful ==
    \A j \in Jobs :
        (Terminal(j) /\ job[j].ok = 0) =>
            (ReportedFailure(j) /\ ~ReportedSuccess(j))

\* the job state of the specification a run is in: Pending while the
\* client prepares a video (upload, placeholder), Extracting during the
\* processing steps of the function, Committing from its insert to its
\* response, Completed and Failed at the two ends of uploadTour (the
\* function has no step of its own for Linking)
JobState(j) ==
    CASE job[j].pc = "unused" -> "None"
      [] job[j].pc \in {"upload", "insert", "invoke"} -> "Pending"
      [] job[j].pc = "awaitFn" /\ fn[j].pc = "steps" -> "Extracting"
      [] job[j].pc = "awaitFn" /\ fn[j].pc # "steps" -> "Committing"
      [] job[j].pc = "done" -> "Completed"
      [] job[j].pc = "failed" -> "Failed"

StateRank(st) ==
    CASE st = "None" -> 0
      [] st = "Pending" -> 1
      [] st = "Extracting" -> 2
      [] st = "Linking" -> 3
      [] st = "Committing" -> 4
      [] st \in {"Completed", "Failed"} -> 5

\* C18 as stated: a job never moves back in the order Pending, Extracting,
\* Linking, Committing, Completed; it enters Failed only from Extracting,
\* Linking or Committing; in Completed or Failed neither its state nor its
\* rows change.
C18_StatesInOrder ==
    [][\A j \in Jobs :
          /\ StateRank(JobState(j)') >= StateRank(JobState(j))
          /\ (JobState(j)' = "Failed" /\ JobState(j) # "Failed") =>
                JobState(j) \in {"Extracting", "Linking", "Committing"}
          /\ Terminal(j) =>
                (JobState(j)' = JobState(j) /\ RowsOf(j)' = RowsOf(j))]_vars

\* the steps of a run of uploadTour and of an invocation of the function
PcSteps ==
    { <<"unused", "upload">>, <<"upload", "insert">>, <<"upload", "upload">>,
      <<"upload", "done">>, <<"upload", "failed">>, <<"insert", "invoke">>,
      <<"invoke", "awaitFn">>, <<"awaitFn", "upload">>,
      <<"awaitFn", "done">> }
FnPcSteps ==
    { <<"idle", "steps">>, <<"steps", "insert">>, <<"insert", "delete">>,
      <<"insert", "err">>, <<"delete", "ok">>, <<"ok", "idle">>,
      <<"err", "idle">> }

\* C18 as amended: every video of a run goes through upload, placeholder
\* insert and invocation, and the function through its steps, its insert
\* and its delete, in this order, after which the run takes up its next
\* video; a run fails only from an upload; once a run has ended, no step
\* changes its position or its counters, starts an invocation for it or
\* adds a row of it.
C18_RunOrder ==
    [][\A j \in Jobs :
          /\ job'[j].pc # job[j].pc => <<job[j].pc, job'[j].pc>> \in PcSteps
          /\ fn'[j].pc # fn[j].pc => <<fn[j].pc, fn'[j].pc>> \in FnPcSteps
          /\ (job'[j].pc = "upload" /\ job[j].pc # "unused") =>
                \/ job'[j].i = job[j].i + 1
                \/ (job[j].pc = "upload" /\ job'[j].i = job[j].i)
          /\ Terminal(j) =>
                /\ job'[j].pc = job[j].pc
                /\ job'[j].i = job[j].i
                /\ job'[j].ok = job[j].ok
                /\ fn'[j] = fn[j]
                /\ RowsOf(j)' \subseteq RowsOf(j)]_vars

C18_Witness ==
    \E j \in Jobs :
        /\ job[j].pc = "done"
        /\ job[j].n = 2
        /\ job[j].ok = 2
        /\ Cardinality(Finals(j)) = 2 * PanoramaCount

\* C19 as stated: the function inserts final rows or deletes placeholders
\* for a run only when every other video of the run has reached its
\* outcome, that is, when the run is at its last video.
C19_CommitAfterAllUnits ==
    [][\A j \in Jobs :
          ( /\ fn[j].pc \in {"insert", "delete"}
            /\ fn'[j].pc # fn[j].pc
            /\ rows' # rows ) =>
              job[j].i = job[j].n - 1]_vars

\* C19 as amended: a run has at most one invocation at a time, for the
\* video its loop is at, and awaits it; the rows of a run belong to videos
\* the loop has passed or is at, and the final rows of the video it is at
\* exist only once the function has inserted them: the commit of a video
\* waits for that video only and precedes every later video.
C19_OneUnitAtATime ==
    \A j \in Jobs :
        /\ fn[j].pc # "idle" =>
              /\ job[j].pc = "awaitFn"
              /\ fn[j].unit = job[j].i
        /\ \A r \in RowsOf(j) :
              \/ UnitOf(r) < job[j].i
              \/ /\ UnitOf(r) = job[j].i
                 /\ job[j].pc \in {"invoke", "awaitFn"}
                 /\ IsFinal(r) => fn[j].pc \in {"delete", "ok"}

C19_Witness ==
    \E j \in Jobs :
        /\ job[j].n = 2
        /\ job[j].i = 0
        /\ fn[j].pc = "delete"
        /\ FinalsOfUnit(j, 0) # {}

\* C20 as stated (one task per unit): the loop of a run leaves a video
\* only after the processing task of that video was dispatched and has
\* answered, and a run does not end before its last video.
C20_OneTaskPerUnit ==
    [][\A j \in Jobs :
          /\ job'[j].i # job[j].i => job[j].pc = "awaitFn"
          /\ (Running(j) /\ Terminal(j)') => job[j].i = job[j].n - 1]_vars

\* C20 as amended: a run exists only for a submission with a user, a
\* non-blank title and at least one video, and starting it writes and
\* dispatches nothing; a task is dispatched only by a run that is at the
\* invocation for the video its loop is at and has no task in flight; a
\* video whose upload succeeded stays the video of the loop until its task
\* has answered, and a video is passed without a task only from its upload.
C20_DispatchPerUploadedUnit ==
    /\ [](\A j \in Jobs :
            job[j].pc # "unused" =>
                /\ job[j].user # NoUser
                /\ job[j].title \notin {"", " "}
                /\ job[j].n >= 1)
    /\ [][\A j \in Jobs :
            /\ (job[j].pc = "unused" /\ job'[j].pc # "unused") =>
                  /\ signedIn[job'[j].sess]
                  /\ tourTitle[job'[j].sess] \notin {"", " "}
                  /\ videos[job'[j].sess] >= 1
                  /\ rows' = rows
                  /\ fn' = fn
            /\ (fn'[j].pc = "steps" /\ fn[j].pc # "steps") =>
                  /\ fn[j].pc = "idle"
                  /\ job[j].pc = "invoke"
                  /\ fn'[j].unit = job[j].i
            /\ job[j].pc \in {"insert", "invoke"} => job'[j].i = job[j].i
            /\ job'[j].i # job[j].i =>
                  /\ job'[j].i = job[j].i + 1
                  /\ \/ job[j].pc = "upload"
                     \/ job[j].pc = "awaitFn" /\ fn[j].pc \in {"ok", "err"}]_vars

C20_Witness ==
    \E j \in Jobs :
        /\ job[j].n = 2
        /\ job[j].pc = "awaitFn"
        /\ fn[j].pc = "steps"
        /\ fn[j].unit = 1
        /\ RowsOf(j) = {}

\* C21: every run of uploadTour comes to one of its two ends with no
\* invocation of the function left open, an invocation ends only by one of
\* the two responses of the function, the end
\* of a run leaves isUploading false in the dialog it was started in, and
\* the dialog shows isUploading only while a run started in it is going.
C21_RunsTerminate ==
    /\ \A j \in Jobs :
          (job[j].pc # "unused") ~>
              (job[j].pc \in {"done", "failed"} /\ fn[j].pc = "idle")
    /\ [][\A j \in Jobs :
             (fn[j].pc # "idle" /\ fn'[j].pc = "idle") =>
                 fn[j].pc \in {"ok", "err"}]_vars
    /\ [](\A s \in Sessions :
             isUploading[s] =>
                 \E j \in Jobs : /\ job[j].sess = s
                                 /\ job[j].mounted
                                 /\ job[j].pc \in {"upload", "insert",
                                                    "invoke", "awaitFn"})
    /\ [][\A j \in Jobs :
             ( /\ job[j].pc \in {"upload", "insert", "invoke", "awaitFn"}
               /\ job[j].mounted
               /\ job'[j].pc \in {"done", "failed"} ) =>
                 ~isUploading'[job[j].sess]]_vars

C21_Witness ==
    \E j \in Jobs :
        /\ job[j].pc = "failed"
        /\ job[j].i = 1
        /\ job[j].mounted
        /\ showTourUpload[job[j].sess]
        /\ ~isUploading[job[j].sess]

\* C22: the function is invoked for a video only when the placeholder row
\* of that video is in the table, so the final rows of a video are those of
\* a video that had a placeholder.
C22_InvokedOnlyWithPlaceholder ==
    \A j \in Jobs :
        /\ fn[j].pc # "idle" => fn[j].had
        /\ (fn[j].pc # "idle" /\ FinalsOfUnit(j, fn[j].unit) # {}) =>
              fn[j].had

\* C23: a call of handleFileSelect comes to the end of its loop, with
\* every video of the selection appended and every other file reported.
C23_EveryFileHandled ==
    \A s \in Sessions :
        (selection[s].pc # "idle") ~>
            /\ selection[s].pc = "finished"
            /\ selection[s].added \cup selection[s].reported =
                  1..Len(selection[s].files)

\* C24: once the marker effect has run for the value of locations, the
\* markers on the map are those of the current locations: one per
\* location, none for a location that is not in the list.
C24_MarkersMatchLocations ==
    \A s \in Sessions : markers[s] = locations[s]

\* C25: the delete of the function removes only rows of type
\* video_processing with the user id and the processing title of its
\* request, and no step removes a final row, a seeded marker or a row of
\* another user.
C25_DeleteOnlyPlaceholders ==
    [][/\ \A j \in Jobs :
            (fn[j].pc = "delete" /\ fn'[j].pc = "ok") =>
                /\ rows' \subseteq rows
                /\ \A r \in rows \ rows' :
                      /\ r.location_type = "video_processing"
                      /\ r.user_id = fn[j].userId
                      /\ r.title = fn[j].tourTitle \o " - Processing"
       /\ \A r \in rows \ rows' :
            /\ r.location_type \notin {"video_panorama", "marker"}
            /\ r.user_id # OtherUser]_vars

C25_Witness ==
    \E j \in Jobs :
        /\ fn[j].pc = "ok"
        /\ fn[j].had
        /\ Placeholders(j) = {}
        /\ Cardinality(Finals(j)) = PanoramaCount
        /\ SeedRows \subseteq rows
        /\ \E r \in rows : r.user_id = OtherUser /\ IsPlaceholder(r)

\* C26: processingProgress is always within 0..100, and does not decrease
\* while a run started in the dialog is in its loop.
C26_ProgressInRange ==
    /\ [](\A s \in Sessions : processingProgress[s] \in 0..100)
    /\ [][\A j \in Jobs :
            ( /\ job[j].pc \in {"upload", "insert", "invoke", "awaitFn"}
              /\ job'[j].pc \in {"upload", "insert", "invoke", "awaitFn"}
              /\ job'[j].mounted ) =>
                processingProgress'[job[j].sess] >=
                    processingProgress[job[j].sess]]_vars

====
